---- MODULE Spec2Model ----
(***************************************************************************)
(* A model of the iso-8601 calendar crate (src/src/lib.rs): the Year       *)
(* capability (is_leap, num_weeks, num_days), the Valid predicates, the    *)
(* six conversions among YmdDate, WeekDate and OrdinalDate, and the strict *)
(* FromStr entry points.  Every function of the crate is pure, so each     *)
(* specification draws an input value in Init and its actions apply the    *)
(* functions to the current value, recording the calls made in `trail`.    *)
(***************************************************************************)
EXTENDS Integers, Sequences, FiniteSets

VARIABLES arg,    \* the value the caller constructed (never changes)
          build,  \* "debug": overflow checks on, "release": wrapping arithmetic
          trail,  \* the calls applied so far, oldest first
          cur     \* the value the last call returned (arg when none was made)

vars == <<arg, build, trail, cur>>

----------------------------------------------------------------------------
(* Bounds of the model. *)

\* the longest chain of calls applied to one input
MaxSteps == 3
\* date inputs take the years 2000 - YearSpan .. 2000 + YearSpan, and the
\* years of the crate's tests besides
YearSpan == 8
\* how far past a field's largest legal value the inputs go
Margin == 1
\* the longest input text handed to from_str
MaxLen == 3

(* Widths of the integer types. *)
I16Min == -32768
I16Max == 32767
U8Max == 255

----------------------------------------------------------------------------
(* Rust integer arithmetic: / and % truncate towards zero; an overflowing   *)
(* operation panics when overflow checks are on and wraps otherwise.        *)

TruncDiv(a, b) == IF a >= 0 THEN a \div b ELSE -((-a) \div b)

TruncRem(a, b) == IF a >= 0 THEN a % b ELSE -((-a) % b)

Fits16(v) == v >= I16Min /\ v <= I16Max

Wrap16(v) == ((v - I16Min) % (I16Max - I16Min + 1)) + I16Min

FitsU8(v) == v >= 0 /\ v <= U8Max

WrapU8(v) == v % (U8Max + 1)

Builds == {"debug", "release"}

(* Values: the crate's structs as records tagged with their type. *)
Panic == [kind |-> "Panic"]

BoolV(v) == [kind |-> "Bool", v |-> v]

IntV(v) == [kind |-> "Int", v |-> v]

YearOf(y) == [kind |-> "Year", year |-> y]

YmdDate(y, m, d) == [kind |-> "YMD", year |-> y, month |-> m, day |-> d]

WeekDate(y, w, d) == [kind |-> "Week", year |-> y, week |-> w, day |-> d]

OrdinalDate(y, d) == [kind |-> "Ordinal", year |-> y, day |-> d]

SetMin(S) == CHOOSE x \in S : \A z \in S : x <= z

----------------------------------------------------------------------------
(* trait Year, impl_year!(i16) *)

is_leap_no400(year) ==
    LET factor(x) == TruncRem(year, x) = 0
    IN  factor(4) /\ ~factor(100)

is_leap(year) ==
    LET factor(x) == TruncRem(year, x) = 0
    IN  factor(4) /\ (~factor(100) \/ factor(400))

num_days(year) == IF is_leap(year) THEN 366 ELSE 365

\* the closure p of num_weeks, evaluated left to right in i16:
\* the three intermediate sums before wrapping
p_sums(x) ==
    LET a == x + TruncDiv(x, 4)
        b == Wrap16(a) - TruncDiv(x, 100)
        c == Wrap16(b) + TruncDiv(x, 400)
    IN  <<a, b, c>>

p_overflows(x) == \E i \in 1..3 : ~Fits16(p_sums(x)[i])

p(x) == TruncRem(Wrap16(p_sums(x)[3]), 7)

\* IntV(52), IntV(53), or Panic when an i16 operation overflows in a debug build
num_weeks(year, b) ==
    IF b = "debug" /\ p_overflows(year) THEN Panic
    ELSE IF p(year) = 4 THEN IntV(53)
    ELSE IF b = "debug" /\ ~Fits16(year - 1) THEN Panic
    ELSE IF b = "debug" /\ p_overflows(Wrap16(year - 1)) THEN Panic
    ELSE IF p(Wrap16(year - 1)) = 3 THEN IntV(53)
    ELSE IntV(52)

----------------------------------------------------------------------------
(* trait Valid *)

\* the month lengths of YmdDate::is_valid; 0 stands for the `_ => return false` arm
month_len(year, month) ==
    IF month \in {1, 3, 5, 7, 8, 10, 12} THEN 31
    ELSE IF month \in {4, 6, 9, 11} THEN 30
    ELSE IF month = 2 THEN (IF is_leap(year) THEN 29 ELSE 28)
    ELSE 0

YmdDate_is_valid_feb28(date) ==
    date.day >= 1 /\ date.day <= (IF date.month = 2 THEN 28
                                  ELSE month_len(date.year, date.month))

YmdDate_is_valid(date) ==
    date.day >= 1 /\ date.day <= month_len(date.year, date.month)

\* && short-circuits: num_weeks is called only when week >= 1
WeekDate_is_valid(date, b) ==
    IF date.week < 1 THEN BoolV(FALSE)
    ELSE LET n == num_weeks(date.year, b)
         IN  IF n = Panic THEN Panic
             ELSE BoolV(date.week <= n.v /\ date.day >= 1 /\ date.day <= 7)

OrdinalDate_is_valid(date) ==
    date.day >= 1 /\ date.day <= num_days(date.year)

LocalTime_is_valid(t) ==
    /\ t.hour <= 24
    /\ t.minute <= 59
    /\ t.second <= 60
    /\ t.nanos < 1000000000

Time_is_valid_incl(t) ==
    LocalTime_is_valid(t.local) /\ t.tz_offset <= 24 * 60 /\ t.tz_offset > -24 * 60

Time_is_valid(t) ==
    LocalTime_is_valid(t.local) /\ t.tz_offset < 24 * 60 /\ t.tz_offset > -24 * 60

\* impl Valid for Date: dispatch on the variant
Date_is_valid(date, b) ==
    IF date.kind = "YMD" THEN BoolV(YmdDate_is_valid(date))
    ELSE IF date.kind = "Week" THEN WeekDate_is_valid(date, b)
    ELSE BoolV(OrdinalDate_is_valid(date))

----------------------------------------------------------------------------
(* Conversions *)

\* the match arms of From<OrdinalDate> for YmdDate, in source order:
\* <<first day, last day, guarded by `if leap`, month, days before the month>>
OrdinalArms ==
    << <<  1,  31, FALSE,  1,   0>>,
       << 32,  60, TRUE,   2,  31>>, << 32,  59, FALSE,  2,  31>>,
       << 61,  91, TRUE,   3,  60>>, << 60,  90, FALSE,  3,  59>>,
       << 92, 121, TRUE,   4,  91>>, << 91, 120, FALSE,  4,  90>>,
       <<122, 152, TRUE,   5, 121>>, <<121, 151, FALSE,  5, 120>>,
       <<153, 182, TRUE,   6, 152>>, <<152, 181, FALSE,  6, 151>>,
       <<183, 213, TRUE,   7, 182>>, <<182, 212, FALSE,  7, 181>>,
       <<214, 244, TRUE,   8, 213>>, <<213, 243, FALSE,  8, 212>>,
       <<245, 274, TRUE,   9, 244>>, <<244, 273, FALSE,  9, 243>>,
       <<275, 305, TRUE,  10, 274>>, <<274, 304, FALSE, 10, 273>>,
       <<306, 335, TRUE,  11, 305>>, <<305, 334, FALSE, 11, 304>>,
       <<336, 366, TRUE,  12, 335>>, <<335, 365, FALSE, 12, 334>> >>

\* the first arm that matches, or Panic for `_ => unreachable!()`
YmdDate_from_OrdinalDate_unguarded(date) ==
    LET hits == {i \in 1..Len(OrdinalArms) :
                    /\ date.day >= OrdinalArms[i][1]
                    /\ date.day <= OrdinalArms[i][2]}
    IN  IF hits = {} THEN Panic
        ELSE LET arm == OrdinalArms[SetMin(hits)]
             IN  YmdDate(date.year, arm[4], WrapU8(date.day - arm[5]))

YmdDate_from_OrdinalDate(date) ==
    LET leap == is_leap(date.year)
        hits == {i \in 1..Len(OrdinalArms) :
                    /\ date.day >= OrdinalArms[i][1]
                    /\ date.day <= OrdinalArms[i][2]
                    /\ (OrdinalArms[i][3] => leap)}
    IN  IF hits = {} THEN Panic
        ELSE LET arm == OrdinalArms[SetMin(hits)]
             IN  YmdDate(date.year, arm[4], WrapU8(date.day - arm[5]))

\* the match arms of From<YmdDate> for OrdinalDate, in source order:
\* <<month, guarded by `if leap`, days before the month>>
MonthArms ==
    << << 1, FALSE,   0>>, << 2, FALSE,  31>>,
       << 3, TRUE,   60>>, << 3, FALSE,  59>>,
       << 4, TRUE,   91>>, << 4, FALSE,  90>>,
       << 5, TRUE,  121>>, << 5, FALSE, 120>>,
       << 6, TRUE,  152>>, << 6, FALSE, 151>>,
       << 7, TRUE,  182>>, << 7, FALSE, 181>>,
       << 8, TRUE,  213>>, << 8, FALSE, 212>>,
       << 9, TRUE,  244>>, << 9, FALSE, 243>>,
       <<10, TRUE,  274>>, <<10, FALSE, 273>>,
       <<11, TRUE,  305>>, <<11, FALSE, 304>>,
       <<12, TRUE,  335>>, <<12, FALSE, 334>> >>

OrdinalDate_from_YmdDate(date) ==
    LET leap == is_leap(date.year)
        hits == {i \in 1..Len(MonthArms) :
                    /\ date.month = MonthArms[i][1]
                    /\ (MonthArms[i][2] => leap)}
    IN  IF hits = {} THEN Panic
        ELSE OrdinalDate(date.year, MonthArms[SetMin(hits)][3] + date.day)

\* ceil(dc / 7) for the f32 division; `as u8` saturates
ceil7_as_u8(dc) ==
    LET q == IF dc >= 0 THEN (dc + 6) \div 7 ELSE -((-dc) \div 7)
    IN  IF q < 0 THEN 0 ELSE IF q > U8Max THEN U8Max ELSE q

WeekDate_from_OrdinalDate(date) ==
    LET y  == TruncRem(TruncRem(date.year, 100), 28)
        cc == TruncRem(TruncDiv(date.year, 100), 4)
        c0 == TruncRem(y + TruncDiv(y - 1, 4) + 5 * cc - 1, 7)
        c  == IF c0 > 3 THEN c0 - 7 ELSE c0
        dc == date.day + c
    IN  WeekDate(date.year, ceil7_as_u8(dc), WrapU8(TruncRem(dc, 7)))

\* Gauss's algorithm, i16 arithmetic, `as u8`
weekday_jan1(year) ==
    LET y == Wrap16(year - 1)
    IN  WrapU8(TruncRem(1 + 5 * TruncRem(y, 4) + 4 * TruncRem(y, 100)
                          + 6 * TruncRem(y, 400), 7))

weekday_jan4(year) == WrapU8(weekday_jan1(year) + 3) % 7

\* the u8 expression week * 7 + day - (weekday_jan4(year) + 3), operation by
\* operation: the values before wrapping, in evaluation order
week_day_sums(date) ==
    LET m  == date.week * 7
        s  == WrapU8(m) + date.day
        j1 == weekday_jan1(date.year) + 3
        j  == weekday_jan4(date.year) + 3
        r  == WrapU8(s) - WrapU8(j)
    IN  <<m, s, j1, j, r>>

week_day_overflows(date) ==
    \/ ~Fits16(date.year - 1)
    \/ \E i \in 1..5 : ~FitsU8(week_day_sums(date)[i])

OrdinalDate_from_WeekDate(date, b) ==
    IF b = "debug" /\ week_day_overflows(date) THEN Panic
    ELSE LET day0 == WrapU8(week_day_sums(date)[5])
             day1 == IF day0 < 1 THEN day0 + num_days(Wrap16(date.year - 1))
                     ELSE day0
             day2 == IF day1 > num_days(date.year)
                     THEN day1 - num_days(date.year) ELSE day1
         IN  OrdinalDate(date.year, day2)

\* From<WeekDate> for YmdDate: OrdinalDate::from(date).into()
YmdDate_from_WeekDate(date, b) ==
    LET o == OrdinalDate_from_WeekDate(date, b)
    IN  IF o = Panic THEN Panic ELSE YmdDate_from_OrdinalDate(o)

\* From<YmdDate> for WeekDate: OrdinalDate::from(date).into()
WeekDate_from_YmdDate(date) ==
    LET o == OrdinalDate_from_YmdDate(date)
    IN  IF o = Panic THEN Panic ELSE WeekDate_from_OrdinalDate(o)

----------------------------------------------------------------------------
(* Strict entry points: impl FromStr for Date, LocalTime, Time, DateTime *)

Alphabet == {"1", "-", "x"}

Texts == UNION {[1..n -> Alphabet] : n \in 0..MaxLen}

\* nom's IResult of parse::date, parse::time_local, parse::time and
\* parse::datetime: Ok((remainder, value)) after consuming a well-formed
\* prefix (the value is identified with the text consumed), or Err(e)
parse(s) ==
    {[ok |-> TRUE, rem |-> SubSeq(s, n + 1, Len(s)), value |-> SubSeq(s, 1, n)] :
        n \in 1..Len(s)}
    \cup {[ok |-> FALSE, err |-> e] : e \in {"Error", "Failure", "Incomplete"}}

\* parse::X(s.as_bytes()).map(|x| x.1).or(Err(()))
from_str(parsed) ==
    IF parsed.ok THEN [ok |-> TRUE, value |-> parsed.value]
    ELSE [ok |-> FALSE]

----------------------------------------------------------------------------
(* Inputs *)

I16 == I16Min..I16Max

Years == ((2000 - YearSpan)..(2000 + YearSpan))
         \cup {1900, 1985, 2015, 2018, 2020, 2023}

YmdInputs == {YmdDate(y, m, d) :
                 y \in Years, m \in 0..(12 + Margin), d \in 0..(31 + Margin)}

WeekInputs == {WeekDate(y, w, d) :
                  y \in Years, w \in 0..(53 + Margin), d \in 0..(7 + Margin)}

OrdinalInputs == {OrdinalDate(y, d) : y \in Years, d \in 0..(366 + Margin)}

Around(n) == {0} \cup ((n - Margin)..(n + Margin))

LocalTimeInputs ==
    {[kind |-> "LocalTime", hour |-> h, minute |-> m, second |-> sec, nanos |-> n] :
        h \in Around(24), m \in Around(59), sec \in Around(60),
        n \in Around(1000000000)}

LocalOf(t) == [hour |-> t.hour, minute |-> t.minute, second |-> t.second,
               nanos |-> t.nanos]

TimeInputs ==
    {[kind |-> "Time", local |-> LocalOf(l), tz_offset |-> z] :
        l \in LocalTimeInputs,
        z \in Around(24 * 60) \cup {-v : v \in Around(24 * 60)}}

IsDate(v) == v.kind \in {"YMD", "Week", "Ordinal"}

Start(inputs) ==
    /\ arg \in inputs
    /\ build \in Builds
    /\ trail = <<>>
    /\ cur = arg

\* one call: the value returned replaces the current one
Call(name, value) ==
    /\ Len(trail) < MaxSteps
    /\ cur' = value
    /\ trail' = Append(trail, name)
    /\ UNCHANGED <<arg, build>>

----------------------------------------------------------------------------
(* The year capability *)

CallIsLeap == cur.kind = "Year" /\ Call("is_leap", BoolV(is_leap(cur.year)))

CallNumDays == cur.kind = "Year" /\ Call("num_days", IntV(num_days(cur.year)))

CallNumWeeks == cur.kind = "Year" /\ Call("num_weeks", num_weeks(cur.year, build))

InitYear == Start({YearOf(y) : y \in I16})

NextYear == CallIsLeap \/ CallNumDays \/ CallNumWeeks

SpecYear == InitYear /\ [][NextYear]_vars

----------------------------------------------------------------------------
(* Dates: validity and the six conversions *)

DateIsValid == IsDate(cur) /\ Call("is_valid", Date_is_valid(cur, build))

YmdToOrdinal ==
    cur.kind = "YMD" /\ Call("OrdinalDate_from_YmdDate", OrdinalDate_from_YmdDate(cur))

YmdToWeek ==
    cur.kind = "YMD" /\ Call("WeekDate_from_YmdDate", WeekDate_from_YmdDate(cur))

OrdinalToYmd ==
    cur.kind = "Ordinal"
    /\ Call("YmdDate_from_OrdinalDate", YmdDate_from_OrdinalDate(cur))

OrdinalToWeek ==
    cur.kind = "Ordinal"
    /\ Call("WeekDate_from_OrdinalDate", WeekDate_from_OrdinalDate(cur))

WeekToOrdinal ==
    cur.kind = "Week"
    /\ Call("OrdinalDate_from_WeekDate", OrdinalDate_from_WeekDate(cur, build))

WeekToYmd ==
    cur.kind = "Week"
    /\ Call("YmdDate_from_WeekDate", YmdDate_from_WeekDate(cur, build))

InitDate == Start(YmdInputs \cup WeekInputs \cup OrdinalInputs)

NextDate ==
    \/ DateIsValid
    \/ YmdToOrdinal
    \/ YmdToWeek
    \/ OrdinalToYmd
    \/ OrdinalToWeek
    \/ WeekToOrdinal
    \/ WeekToYmd

SpecDate == InitDate /\ [][NextDate]_vars

----------------------------------------------------------------------------
(* Times: validity *)

LocalTimeIsValid ==
    cur.kind = "LocalTime" /\ Call("is_valid", BoolV(LocalTime_is_valid(cur)))

TimeIsValid == cur.kind = "Time" /\ Call("is_valid", BoolV(Time_is_valid(cur)))

InitTime == Start(LocalTimeInputs \cup TimeInputs)

NextTime == LocalTimeIsValid \/ TimeIsValid

SpecTime == InitTime /\ [][NextTime]_vars

----------------------------------------------------------------------------
(* Text: the strict entry points *)

FromStr(target) ==
    /\ cur.kind = "Str"
    /\ \E r \in parse(cur.s) :
          Call("from_str", [kind |-> "FromStr", target |-> target, parsed |-> r,
                            result |-> from_str(r)])

DateFromStr == FromStr("Date")

LocalTimeFromStr == FromStr("LocalTime")

TimeFromStr == FromStr("Time")

DateTimeFromStr == FromStr("DateTime")

InitText == Start({[kind |-> "Str", s |-> t] : t \in Texts})

NextText == DateFromStr \/ LocalTimeFromStr \/ TimeFromStr \/ DateTimeFromStr

SpecText == InitText /\ [][NextText]_vars

----------------------------------------------------------------------------
(* Reference calendar: the proleptic Gregorian calendar and the ISO week    *)
(* date over the mathematical integers, against which the claims are stated *)

Divides(n, y) == y % n = 0

LeapRule(y) == Divides(4, y) /\ (~Divides(100, y) \/ Divides(400, y))

YearLength(y) == IF LeapRule(y) THEN 366 ELSE 365

\* days of the years 1 .. y-1 (negative before year 1); 0001-01-01 is a Monday
DaysBefore(y) ==
    365 * (y - 1) + ((y - 1) \div 4) - ((y - 1) \div 100) + ((y - 1) \div 400)

\* Monday = 1 .. Sunday = 7
IsoWeekday(y, d) == ((DaysBefore(y) + d - 1) % 7) + 1

\* the ISO rule for the number of weeks, with floor division
PFloor(x) == (x + (x \div 4) - (x \div 100) + (x \div 400)) % 7

IsoWeeks(y) == IF PFloor(y) = 4 \/ PFloor(y - 1) = 3 THEN 53 ELSE 52

IsoWeekDate(y, d) ==
    LET wd == IsoWeekday(y, d)
        w  == (d - wd + 10) \div 7
    IN  IF w < 1 THEN WeekDate(y - 1, IsoWeeks(y - 1), wd)
        ELSE IF w > IsoWeeks(y) THEN WeekDate(y + 1, 1, wd)
        ELSE WeekDate(y, w, wd)

IsoOrdinalDay(y, w, d) ==
    LET raw == w * 7 + d - (IsoWeekday(y, 4) + 3)
    IN  IF raw < 1 THEN raw + YearLength(y - 1)
        ELSE IF raw > YearLength(y) THEN raw - YearLength(y)
        ELSE raw

Last == IF trail = <<>> THEN "" ELSE trail[Len(trail)]

----------------------------------------------------------------------------
(* Claims *)

\* C1: a valid YmdDate converted to OrdinalDate, then to WeekDate, then back
\* to YmdDate, is the YmdDate that was started from.
C1_YmdWeekRoundTrip ==
    (/\ arg.kind = "YMD"
     /\ YmdDate_is_valid(arg)
     /\ trail = <<"OrdinalDate_from_YmdDate", "WeekDate_from_OrdinalDate",
                  "YmdDate_from_WeekDate">>)
    => cur = arg

\* C2: on valid inputs YmdDate -> OrdinalDate -> YmdDate and
\* OrdinalDate -> YmdDate -> OrdinalDate both return the value started from.
C2_YmdOrdinalInverse ==
    /\ (/\ arg.kind = "YMD"
        /\ YmdDate_is_valid(arg)
        /\ trail = <<"OrdinalDate_from_YmdDate", "YmdDate_from_OrdinalDate">>)
       => cur = arg
    /\ (/\ arg.kind = "Ordinal"
        /\ OrdinalDate_is_valid(arg)
        /\ trail = <<"YmdDate_from_OrdinalDate", "OrdinalDate_from_YmdDate">>)
       => cur = arg

\* C2's case: the leap day 2020-02-29 has gone to day 60 and come back.
C2_Witness ==
    /\ arg = YmdDate(2020, 2, 29)
    /\ trail = <<"OrdinalDate_from_YmdDate", "YmdDate_from_OrdinalDate">>
    /\ cur = arg

\* C3: each of the six conversions returns a value for every combination of
\* field values: it never panics.
C3_ConversionsTotal ==
    (trail # <<>> /\ Last # "is_valid") => cur # Panic

\* C4: from_str succeeds only when the parser consumed the whole input (a
\* value with a non-empty remainder gives Err(())), and every parser error
\* gives Err(()).
C4_StrictFullConsumption ==
    cur.kind = "FromStr" =>
        /\ (cur.parsed.ok /\ cur.parsed.rem # <<>>) => cur.result = [ok |-> FALSE]
        /\ ~cur.parsed.ok => cur.result = [ok |-> FALSE]

\* C5: for every i16 year num_weeks returns 53 exactly when p(year) = 4 or
\* p(year - 1) = 3, with p computed by floor division and non-negative
\* modulo, and 52 otherwise.
C5_NumWeeksIsoRule ==
    trail = <<"num_weeks">> => cur = IntV(IsoWeeks(arg.year))

\* C6: is_leap is true exactly for the years divisible by 4 and not by 100,
\* or divisible by 400, negative years included; num_days is 366 exactly
\* for those years and 365 otherwise.
C6_LeapRule ==
    /\ trail = <<"is_leap">> => cur = BoolV(LeapRule(arg.year))
    /\ trail = <<"num_days">> => cur = IntV(IF LeapRule(arg.year) THEN 366 ELSE 365)

\* C6's case: is_leap has answered true for the negative year -2000.
C6_Witness ==
    /\ arg = YearOf(-2000)
    /\ trail = <<"is_leap">>
    /\ cur = BoolV(TRUE)

\* C7: YmdDate::is_valid is true exactly when month is in 1..12 and day is
\* in 1..L, L being 31, 30, or for February 29 in a leap year and 28 otherwise.
C7_YmdValidity ==
    (arg.kind = "YMD" /\ trail = <<"is_valid">>) =>
        cur = BoolV(/\ arg.month \in 1..12
                    /\ arg.day >= 1
                    /\ arg.day <= (CASE arg.month \in {1, 3, 5, 7, 8, 10, 12} -> 31
                                     [] arg.month \in {4, 6, 9, 11} -> 30
                                     [] arg.month = 2 ->
                                          IF LeapRule(arg.year) THEN 29 ELSE 28))

\* C7's case: 2020-02-29 has been found valid.
C7_Witness ==
    /\ arg = YmdDate(2020, 2, 29)
    /\ trail = <<"is_valid">>
    /\ cur = BoolV(TRUE)

\* C8: Time::is_valid is true exactly when hour <= 24, minute <= 59,
\* second <= 60, nanos < 1_000_000_000 and -1440 < tz_offset < 1440.
C8_TimeValidity ==
    (arg.kind = "Time" /\ trail = <<"is_valid">>) =>
        cur = BoolV(/\ arg.local.hour <= 24
                    /\ arg.local.minute <= 59
                    /\ arg.local.second <= 60
                    /\ arg.local.nanos < 1000000000
                    /\ -1440 < arg.tz_offset
                    /\ arg.tz_offset < 1440)

\* C8's case: hour 24 with second 60 and an offset of -1439 minutes has been
\* found valid.
C8_Witness ==
    /\ arg.kind = "Time"
    /\ arg.local.hour = 24
    /\ arg.local.minute = 59
    /\ arg.local.second = 60
    /\ arg.local.nanos = 999999999
    /\ arg.tz_offset = -1439
    /\ trail = <<"is_valid">>
    /\ cur = BoolV(TRUE)

\* C9: for a valid OrdinalDate, WeekDate::from is the ISO week date of the
\* same day: weekday 1..7 (Sunday = 7), the days before week 1 in the last
\* week of the previous year, the days after the last week in week 1 of the
\* next year; the result is a valid WeekDate.
C9_OrdinalToIsoWeek ==
    (/\ arg.kind = "Ordinal"
     /\ OrdinalDate_is_valid(arg)
     /\ trail = <<"WeekDate_from_OrdinalDate">>)
    => /\ cur = IsoWeekDate(arg.year, arg.day)
       /\ cur.day \in 1..7
       /\ WeekDate_is_valid(cur, build) = BoolV(TRUE)

\* C10: for a valid WeekDate, OrdinalDate::from gives the day
\* week*7 + day - (weekday_jan4(year) + 3) over the integers, rolled over at
\* the year's ends, and its u8 arithmetic never overflows.
C10_WeekToOrdinalFormula ==
    (/\ arg.kind = "Week"
     /\ WeekDate_is_valid(arg, build) = BoolV(TRUE)
     /\ trail = <<"OrdinalDate_from_WeekDate">>)
    => /\ ~week_day_overflows(arg)
       /\ cur = OrdinalDate(arg.year, IsoOrdinalDay(arg.year, arg.week, arg.day))

====
